---- MODULE Spec2Model ----
(***************************************************************************)
(* Model of torchcontroldiffeq/cdeint_module.py: the controlled vector     *)
(* field adaptor _VectorField and the entry point cdeint.                  *)
(*                                                                         *)
(* Tensors are modelled by their shape (a sequence of dimension sizes),    *)
(* their data (nested sequences of integers) and their gradient ancestry   *)
(* anc (the set of tensors a backward pass through them would reach).      *)
(* A tuple is the record [kind |-> "tuple", items |-> <<...>>].            *)
(***************************************************************************)
EXTENDS Integers, Sequences, FiniteSets, TLC

\* ---------------------------------------------------------------- bounds
MaxBatchRank == 1   \* number of batch dimensions '...'
MaxDim == 2         \* size of any one dimension
MaxTLen == 2        \* len(t)
MaxSteps == 2       \* adaptor invocations per solve
MaxParams == 1      \* parameters of func / computed parameters of X
RecursionLimit == 3 \* depth at which the interpreter raises RecursionError

Dims == 1..MaxDim

RECURSIVE SeqsUpTo(_, _)
SeqsUpTo(S, n) ==
    IF n = 0 THEN {<<>>}
    ELSE LET shorter == SeqsUpTo(S, n - 1)
         IN shorter \cup {Append(s, x) : s \in shorter, x \in S}

BatchShapes == SeqsUpTo(Dims, MaxBatchRank)

\* shapes of rank (batch rank + k)
ShapesOver(k) ==
    {b \o c : b \in BatchShapes, c \in {s \in SeqsUpTo(Dims, k) : Len(s) = k}}

\* ---------------------------------------------------------------- tensors
\* shape[:-n]
DropLast(shape, n) == SubSeq(shape, 1, Len(shape) - n)

\* tensor.size(-n)
SizeFromEnd(shape, n) == shape[Len(shape) + 1 - n]

RECURSIVE Fill(_, _)
\* a tensor of the given shape whose entries differ from index to index
Fill(shape, seed) ==
    IF shape = <<>> THEN seed
    ELSE [k \in 1..Head(shape) |-> Fill(Tail(shape), 2 * seed + k)]

RECURSIVE ShapeOf(_, _)
\* the shape of nested data of the given rank
ShapeOf(data, rank) ==
    IF rank = 0 THEN <<>>
    ELSE <<Len(data)>> \o ShapeOf(data[1], rank - 1)

Tensor(shape, data, anc) ==
    [kind |-> "tensor", shape |-> shape, data |-> data, anc |-> anc]

Tuple1(x) == [kind |-> "tuple", items |-> <<x>>]

\* torch.Tensor.detach: same values, no gradient history
detach(x) == [x EXCEPT !.anc = {}]

RECURSIVE UnsqueezeLastData(_, _)
UnsqueezeLastData(data, rank) ==
    IF rank = 0 THEN <<data>>
    ELSE [k \in 1..Len(data) |-> UnsqueezeLastData(data[k], rank - 1)]

\* x.unsqueeze(-1)
unsqueeze_last(x) ==
    Tensor(Append(x.shape, 1), UnsqueezeLastData(x.data, Len(x.shape)), x.anc)

RECURSIVE SqueezeLastData(_, _)
SqueezeLastData(data, rank) ==
    IF rank = 1 THEN data[1]
    ELSE [k \in 1..Len(data) |-> SqueezeLastData(data[k], rank - 1)]

\* x.squeeze(-1): drops the last dimension when its size is 1
squeeze_last(x) ==
    IF SizeFromEnd(x.shape, 1) = 1
    THEN Tensor(DropLast(x.shape, 1), SqueezeLastData(x.data, Len(x.shape)), x.anc)
    ELSE x

RECURSIVE SumTo(_, _, _)
\* sum over k in 1..n of a[k] * b[k]
SumTo(a, b, n) == IF n = 0 THEN 0 ELSE SumTo(a, b, n - 1) + a[n] * b[n]

\* (m x n) @ (n x p)
MatMul2D(A, B) ==
    [r \in 1..Len(A) |->
        [c \in 1..Len(B[1]) |->
            SumTo(A[r], [k \in 1..Len(B) |-> B[k][c]], Len(B))]]

RECURSIVE MatMulData(_, _, _)
MatMulData(a, b, rank) ==
    IF rank = 2 THEN MatMul2D(a, b)
    ELSE [k \in 1..Len(a) |-> MatMulData(a[k], b[k], rank - 1)]

\* a @ b for tensors with equal batch dimensions
matmul(a, b) ==
    Tensor(DropLast(a.shape, 1) \o <<SizeFromEnd(b.shape, 1)>>,
           MatMulData(a.data, b.data, Len(a.shape)),
           a.anc \cup b.anc)

\* ------------------------------------------------- external collaborators
\* X.derivative(t): a tensor of the path's derivative shape (..., input_channels)
\* whose values depend on t and whose gradient history runs through t
X_derivative(X, t) ==
    Tensor(X.derivative_shape, Fill(X.derivative_shape, t.data + 1), t.anc \cup {"X"})

RECURSIVE FuncData(_, _, _)
FuncData(zdata, rank, input_channels) ==
    IF rank = 0 THEN [i \in 1..input_channels |-> zdata * i + 1]
    ELSE [k \in 1..Len(zdata) |-> FuncData(zdata[k], rank - 1, input_channels)]

\* func(z): a tensor of shape (..., hidden_channels, input_channels) whose values
\* depend on z and whose gradient history runs through z
func_call(func, z) ==
    Tensor(Append(z.shape, func.input_channels),
           FuncData(z.data, Len(z.shape), func.input_channels),
           z.anc \cup {"func"})

\* the values a solver returns for initial state y0 and time grid of length n:
\* one tensor of shape (n, ...) per tensor of y0, in y0's own structure
odeint_result(y0, n) ==
    IF y0.kind = "tuple"
    THEN [kind |-> "tuple",
          items |-> [k \in 1..Len(y0.items) |->
                        [kind |-> "tensor", shape |-> <<n>> \o y0.items[k].shape]]]
    ELSE [kind |-> "tensor", shape |-> <<n>> \o y0.shape]

\* ---------------------------------------------------------- _VectorField
NoAdaptor ==
    [id |-> 0,
     X |-> [derivative_shape |-> <<>>],
     func |-> [isModule |-> FALSE, input_channels |-> 0],
     t_not_requires_grad |-> FALSE,
     z_not_requires_grad |-> FALSE]

\* _VectorField.__init__ refuses a func that is no torch.nn.Module
VectorField_init_raises(func) == ~func.isModule

\* a constructor that derives both flags from t_requires_grad
VectorField_init_one_flag(id, X, func, t_requires_grad, z0_requires_grad, adjoint) ==
    [id |-> id,
     X |-> X,
     func |-> func,
     t_not_requires_grad |-> adjoint /\ ~t_requires_grad,
     z_not_requires_grad |-> adjoint /\ ~t_requires_grad]

\* a constructor that ignores the adjoint flag
VectorField_init_no_adjoint(id, X, func, t_requires_grad, z0_requires_grad, adjoint) ==
    [id |-> id,
     X |-> X,
     func |-> func,
     t_not_requires_grad |-> ~t_requires_grad,
     z_not_requires_grad |-> ~z0_requires_grad]

\* _VectorField.__init__: the attributes it sets
VectorField_init(id, X, func, t_requires_grad, z0_requires_grad, adjoint) ==
    [id |-> id,
     X |-> X,
     func |-> func,
     t_not_requires_grad |-> adjoint /\ ~t_requires_grad,
     z_not_requires_grad |-> adjoint /\ ~z0_requires_grad]

\* a product that forgets the final squeeze
VectorField_product_unsqueezed(vector_field, control_gradient) ==
    matmul(vector_field, unsqueeze_last(control_gradient))

\* out = (vector_field @ control_gradient.unsqueeze(-1)).squeeze(-1)
VectorField_product(vector_field, control_gradient) ==
    squeeze_last(matmul(vector_field, unsqueeze_last(control_gradient)))

\* a call that clears the time flag once it has detached
VectorField_attributes_cleared(self) == [self EXCEPT !.t_not_requires_grad = FALSE]

\* _VectorField.__call__ assigns no attribute of self
VectorField_attributes_after_call(self) == self

\* _VectorField.__call__: the adaptor after the call, the arguments X.derivative
\* and func were called with (one entry per call), and the value returned
VectorField_call(self, t, z) ==
    LET z1 == z.items[1]
        t2 == IF self.t_not_requires_grad THEN detach(t) ELSE t
        z2 == IF self.z_not_requires_grad THEN detach(z1) ELSE z1
        control_gradient == X_derivative(self.X, t2)
        vector_field == func_call(self.func, z2)
        out == VectorField_product(vector_field, control_gradient)
    IN  [self |-> VectorField_attributes_after_call(self),
         derivative_args |-> <<t2>>,
         func_args |-> <<z2>>,
         ret |-> Tuple1(out)]

RECURSIVE VectorField_parameters(_, _, _, _)
\* _VectorField.parameters: the generator first delegates to self.parameters(),
\* i.e. to a new generator of the same method, before it reaches X's registry
VectorField_parameters(self, func_parameters, computed_parameters, depth) ==
    IF depth >= RecursionLimit
    THEN [raised |-> "RecursionError", items |-> <<>>]
    ELSE LET inner == VectorField_parameters(self, func_parameters,
                                             computed_parameters, depth + 1)
         IN  IF inner.raised # "none" THEN inner
             ELSE [raised |-> "none", items |-> inner.items \o computed_parameters]

\* ---------------------------------------------------------------- cdeint
VARIABLES
    pc,                \* "idle", "solving" (inside the solver), "done", "error"
    adaptors_built,    \* _VectorField objects constructed so far
    X, z0, t, func, kwargs,   \* what the call has read of its arguments
    adjoint_given,     \* whether the caller passed adjoint
    adjoint,           \* the value of cdeint's parameter adjoint
    control_gradient,  \* shape of cdeint's local control_gradient
    vector_field,      \* shape of cdeint's local vector_field (the probe)
    raised,            \* the exception the call ended with
    derivative_calls,  \* calls of X.derivative made so far
    func_calls,        \* calls of func made so far
    adaptor,           \* the _VectorField of this call
    solver_calls,      \* invocations of odeint / odeint_adjoint, in order
    steps,             \* adaptor invocations made by the solver
    last,              \* the last adaptor invocation: its inputs and its result
    out,               \* the value cdeint returned
    enum               \* the last enumeration of adaptor.parameters()

vars == <<pc, adaptors_built, X, z0, t, func, adjoint_given, adjoint, kwargs,
          control_gradient, vector_field, raised, derivative_calls, func_calls,
          adaptor, solver_calls, steps, last, out, enum>>

NoShape == <<>>
NotRaised == [type |-> "none", check |-> "none", shapes |-> <<>>, meaning |-> <<>>]
NoTensor == Tensor(<<>>, 0, {})
NoInvocation ==
    [t |-> NoTensor, z |-> Tuple1(NoTensor), derivative_args |-> <<>>,
     func_args |-> <<>>, ret |-> Tuple1(NoTensor)]
NoOut == [kind |-> "none"]
NoEnum ==
    [called |-> FALSE, func_parameters |-> <<>>, computed_parameters |-> <<>>,
     raised |-> "none", items |-> <<>>]
UnreadX == [isPath |-> FALSE]
UnreadZ0 == [shape |-> NoShape, requires_grad |-> FALSE]
UnreadT == [len |-> 0, requires_grad |-> FALSE]
UnreadFunc == [isModule |-> FALSE]
Kwargs == {"defaults", "method=rk4"}

\* a cdeint that accepts any X
IsPath_unchecked(x) == TRUE

\* line 112: isinstance(X, path.Path)
IsPath(x) == x.isPath

\* line 118
ControlBatchMismatch(cg, z0_shape) == DropLast(cg, 1) # DropLast(z0_shape, 1)

\* line 125
FuncBatchMismatch(vf, z0_shape) == DropLast(vf, 2) # DropLast(z0_shape, 1)

\* line 131
HiddenMismatch(vf, z0_shape) == SizeFromEnd(vf, 2) # SizeFromEnd(z0_shape, 1)

\* a cdeint that does not compare the input channels
InputMismatch_unchecked(vf, cg) == FALSE

\* line 136
InputMismatch(vf, cg) == SizeFromEnd(vf, 1) # SizeFromEnd(cg, 1)

\* the exceptions of lines 113-141: their type and what their message reports
PathError ==
    [type |-> "ValueError", check |-> "X", shapes |-> <<>>, meaning |-> <<>>]

\* t[0] of an empty time grid
IndexError ==
    [type |-> "IndexError", check |-> "t[0]", shapes |-> <<>>, meaning |-> <<>>]

ControlBatchError(cg, z0_shape) ==
    [type |-> "ValueError", check |-> "control_batch",
     shapes |-> <<cg, z0_shape>>,
     meaning |-> <<DropLast(cg, 1), DropLast(z0_shape, 1)>>]

FuncBatchError(vf, z0_shape) ==
    [type |-> "ValueError", check |-> "func_batch",
     shapes |-> <<vf, z0_shape>>,
     meaning |-> <<DropLast(vf, 2), DropLast(z0_shape, 1)>>]

\* the last argument of format() is z0.shape.size(-1): a torch.Size has no
\* attribute 'size', so building the message raises before ValueError is built
HiddenError(vf, z0_shape) ==
    [type |-> "AttributeError", check |-> "hidden", shapes |-> <<>>, meaning |-> <<>>]

InputError(vf, cg) ==
    [type |-> "ValueError", check |-> "input",
     shapes |-> <<vf, cg>>,
     meaning |-> <<SizeFromEnd(vf, 1), SizeFromEnd(cg, 1)>>]

FuncTypeError ==
    [type |-> "ValueError", check |-> "func_type", shapes |-> <<>>, meaning |-> <<>>]

\* line 72: adjoint=True
AdjointParameter(given, passed) == IF given THEN passed ELSE TRUE

\* a cdeint that picks the other solver
SelectSolver_swapped(adj) == IF adj THEN "odeint" ELSE "odeint_adjoint"

\* line 145
SelectSolver(adj) == IF adj THEN "odeint_adjoint" ELSE "odeint"

\* line 150: odeint(func=vector_field, y0=(z0,), t=t, **kwargs)
SolverCall(adj, vf, z0v, tv, kw) ==
    [solver |-> SelectSolver(adj), func |-> vf.id,
     y0 |-> Tuple1([kind |-> "tensor", shape |-> z0v.shape]),
     t |-> tv, kwargs |-> kw]

\* line 152: return out
cdeint_return(solver_out) == solver_out

Init ==
    /\ pc = "idle"
    /\ adaptors_built = 0
    /\ X = UnreadX /\ z0 = UnreadZ0 /\ t = UnreadT /\ func = UnreadFunc
    /\ adjoint_given = FALSE /\ adjoint = FALSE /\ kwargs = "defaults"
    /\ control_gradient = NoShape /\ vector_field = NoShape
    /\ raised = NotRaised
    /\ derivative_calls = 0 /\ func_calls = 0
    /\ adaptor = NoAdaptor
    /\ solver_calls = <<>>
    /\ steps = 0 /\ last = NoInvocation /\ out = NoOut /\ enum = NoEnum

\* the call ends with exception e, having read and computed the given values
Raise(e, Xv, tv, z0v, cg, vf, dcalls, fcalls) ==
    /\ pc' = "error"
    /\ raised' = e
    /\ X' = Xv /\ t' = tv /\ z0' = z0v
    /\ control_gradient' = cg /\ vector_field' = vf
    /\ derivative_calls' = dcalls /\ func_calls' = fcalls
    /\ UNCHANGED <<adaptors_built, func, adjoint_given, adjoint, kwargs,
                   adaptor, solver_calls, steps, last, out, enum>>

\* lines 143-150, once the shapes have been validated
Construct(Xv, tl, z0s, cg, vf, dcalls, fcalls) ==
    \E t_rg \in BOOLEAN, z0_rg \in BOOLEAN, isModule \in BOOLEAN,
       given \in BOOLEAN, passed \in BOOLEAN :
        LET adj == AdjointParameter(given, passed)
            tv == [len |-> tl, requires_grad |-> t_rg]
            z0v == [shape |-> z0s, requires_grad |-> z0_rg]
            fv == [isModule |-> isModule, input_channels |-> SizeFromEnd(vf, 1)]
            Xo == [derivative_shape |-> cg]
            field == VectorField_init(adaptors_built + 1, Xo, fv, t_rg, z0_rg, adj)
        IN  /\ X' = Xv /\ t' = tv /\ z0' = z0v
            /\ func' = [isModule |-> isModule]
            /\ (given \/ passed)   \* nothing is passed when adjoint is left out
            /\ adjoint_given' = given
            /\ adjoint' = adj
            /\ control_gradient' = cg /\ vector_field' = vf
            /\ derivative_calls' = dcalls /\ func_calls' = fcalls
            /\ UNCHANGED <<steps, last, out, enum>>
            /\ IF VectorField_init_raises(fv)
               THEN /\ pc' = "error"
                    /\ raised' = FuncTypeError
                    /\ UNCHANGED <<adaptors_built, kwargs, adaptor,
                                   solver_calls>>
               ELSE \E kw \in Kwargs :
                    /\ pc' = "solving"
                    /\ raised' = NotRaised
                    /\ adaptors_built' = adaptors_built + 1
                    /\ adaptor' = field
                    /\ kwargs' = kw
                    /\ solver_calls' =
                           Append(solver_calls, SolverCall(adj, field, z0v, tv, kw))

\* cdeint, from its first line to the point where the solver takes over
cdeint ==
    /\ pc = "idle"
    /\ \E isPath \in BOOLEAN :
       LET Xv == [isPath |-> isPath] IN
       IF ~IsPath(Xv)
       THEN Raise(PathError, Xv, UnreadT, UnreadZ0, NoShape, NoShape, 0, 0)
       ELSE \E tl \in 0..MaxTLen :
            LET tv == [len |-> tl, requires_grad |-> FALSE] IN
            IF tl = 0
            THEN Raise(IndexError, Xv, tv, UnreadZ0, NoShape, NoShape, 0, 0)
            ELSE \E cg \in ShapesOver(1), z0s \in ShapesOver(1) :
                 LET z0v == [shape |-> z0s, requires_grad |-> FALSE]
                     \* X.derivative(t[0].detach())
                     dcalls == 1
                 IN
                 IF ControlBatchMismatch(cg, z0s)
                 THEN Raise(ControlBatchError(cg, z0s), Xv, tv, z0v, cg, NoShape,
                            dcalls, 0)
                 ELSE \E vf \in ShapesOver(2) :
                      \* func(z0)
                      LET fcalls == 1 IN
                      IF FuncBatchMismatch(vf, z0s)
                      THEN Raise(FuncBatchError(vf, z0s), Xv, tv, z0v, cg, vf,
                                 dcalls, fcalls)
                      ELSE IF HiddenMismatch(vf, z0s)
                      THEN Raise(HiddenError(vf, z0s), Xv, tv, z0v, cg, vf,
                                 dcalls, fcalls)
                      ELSE IF InputMismatch(vf, cg)
                      THEN Raise(InputError(vf, cg), Xv, tv, z0v, cg, vf,
                                 dcalls, fcalls)
                      ELSE Construct(Xv, tl, z0s, cg, vf, dcalls, fcalls)

\* the solver evaluates the vector field at a time of the grid's range and at the
\* state it has reached: one call of adaptor(t, (z,))
SolverStep ==
    /\ pc = "solving"
    /\ steps < MaxSteps
    /\ \E time \in 0..(t.len - 1) :
        LET tt == Tensor(<<>>, time, {"t"})
            zz == Tuple1(Tensor(z0.shape, Fill(z0.shape, steps + 1), {"z"}))
            r == VectorField_call(adaptor, tt, zz)
        IN  /\ adaptor' = r.self
            /\ last' = [t |-> tt, z |-> zz,
                        derivative_args |-> r.derivative_args,
                        func_args |-> r.func_args,
                        ret |-> r.ret]
            /\ derivative_calls' = derivative_calls + Len(r.derivative_args)
            /\ func_calls' = func_calls + Len(r.func_args)
    /\ steps' = steps + 1
    /\ UNCHANGED <<pc, adaptors_built, X, z0, t, func, adjoint_given, adjoint,
                   kwargs, control_gradient, vector_field, raised,
                   solver_calls, out, enum>>

\* the solver may collect adaptor.parameters() before it integrates (the adjoint
\* method needs them); an exception raised there leaves the solver and cdeint
Parameters ==
    /\ pc = "solving"
    /\ steps = 0
    /\ \E fp \in SeqsUpTo({"weight"}, MaxParams), cp \in SeqsUpTo({"coeffs"}, MaxParams) :
        LET r == VectorField_parameters(adaptor, fp, cp, 0) IN
        /\ enum' = [called |-> TRUE, func_parameters |-> fp,
                    computed_parameters |-> cp,
                    raised |-> r.raised, items |-> r.items]
        /\ IF r.raised # "none"
           THEN /\ pc' = "error"
                /\ raised' = [type |-> r.raised, check |-> "parameters",
                              shapes |-> <<>>, meaning |-> <<>>]
           ELSE UNCHANGED <<pc, raised>>
    /\ UNCHANGED <<adaptors_built, X, z0, t, func, adjoint_given, adjoint,
                   kwargs, control_gradient, vector_field, derivative_calls,
                   func_calls, adaptor, solver_calls, steps, last, out>>

\* the solver returns and cdeint returns its value (lines 150-152)
SolverReturn ==
    /\ pc = "solving"
    /\ steps > 0
    /\ pc' = "done"
    /\ out' = cdeint_return(odeint_result(solver_calls[Len(solver_calls)].y0, t.len))
    /\ UNCHANGED <<adaptors_built, X, z0, t, func, adjoint_given, adjoint,
                   kwargs, control_gradient, vector_field, raised,
                   derivative_calls, func_calls, adaptor, solver_calls, steps,
                   last, enum>>

\* the solver fails numerically; cdeint lets the exception through
SolverRaise ==
    /\ pc = "solving"
    /\ pc' = "error"
    /\ raised' = [type |-> "SolverError", check |-> "solver",
                  shapes |-> <<>>, meaning |-> <<>>]
    /\ UNCHANGED <<adaptors_built, X, z0, t, func, adjoint_given, adjoint,
                   kwargs, control_gradient, vector_field, derivative_calls,
                   func_calls, adaptor, solver_calls, steps, last, out, enum>>

Next ==
    \/ cdeint
    \/ SolverStep
    \/ Parameters
    \/ SolverReturn
    \/ SolverRaise

Spec == Init /\ [][Next]_vars

\* ================================================================ claims

\* the call got as far as evaluating func(z0)
Probed == pc # "idle" /\ control_gradient # NoShape /\ vector_field # NoShape

\* the shapes the call has seen agree: batch dimensions, hidden channels, input
\* channels
ShapesAgree ==
    /\ Probed
    /\ DropLast(control_gradient, 1) = DropLast(z0.shape, 1)
    /\ DropLast(vector_field, 2) = DropLast(z0.shape, 1)
    /\ vector_field[Len(vector_field) - 1] = z0.shape[Len(z0.shape)]
    /\ vector_field[Len(vector_field)] = control_gradient[Len(control_gradient)]

\* C1: when cdeint returns, the returned value is a tensor (not a container
\* around one) of shape (len(t),) + z0.shape.
C1_ReturnsTensor ==
    pc = "done" =>
        /\ out.kind = "tensor"
        /\ out.shape = <<t.len>> \o z0.shape

\* the only disagreement of the shapes is in the hidden channels
OnlyHiddenMismatch ==
    /\ Probed
    /\ DropLast(control_gradient, 1) = DropLast(z0.shape, 1)
    /\ DropLast(vector_field, 2) = DropLast(z0.shape, 1)
    /\ vector_field[Len(vector_field) - 1] # z0.shape[Len(z0.shape)]
    /\ vector_field[Len(vector_field)] = control_gradient[Len(control_gradient)]

\* C2: a hidden-channel mismatch ends the call with a ValueError whose message
\* reports both shapes and both channel counts.
C2_HiddenMismatchIsValueError ==
    OnlyHiddenMismatch =>
        /\ pc = "error"
        /\ raised.type = "ValueError"
        /\ raised.shapes = <<vector_field, z0.shape>>
        /\ raised.meaning = <<vector_field[Len(vector_field) - 1],
                              z0.shape[Len(z0.shape)]>>

\* C3: enumerating adaptor.parameters() ends without an exception and yields
\* func's parameters followed by X's computed parameters.
C3_ParametersEnumerates ==
    enum.called =>
        /\ enum.raised = "none"
        /\ enum.items = enum.func_parameters \o enum.computed_parameters

\* the call has seen two shapes that disagree
MismatchSeen ==
    /\ pc # "idle"
    /\ control_gradient # NoShape
    /\ \/ DropLast(control_gradient, 1) # DropLast(z0.shape, 1)
       \/ /\ vector_field # NoShape
          /\ \/ DropLast(vector_field, 2) # DropLast(z0.shape, 1)
             \/ vector_field[Len(vector_field) - 1] # z0.shape[Len(z0.shape)]
             \/ vector_field[Len(vector_field)] # control_gradient[Len(control_gradient)]

\* C4: a call that meets a shape mismatch ends with an error, and no adaptor is
\* constructed and no solver invoked on it.
C4_MismatchFailsBeforeSolver ==
    MismatchSeen =>
        /\ pc = "error"
        /\ raised.type # "none"
        /\ adaptors_built = 0
        /\ adaptor = NoAdaptor
        /\ solver_calls = <<>>
        /\ steps = 0

C4_Witness ==
    /\ pc = "error"
    /\ Probed
    /\ DropLast(vector_field, 2) = DropLast(z0.shape, 1)
    /\ vector_field[Len(vector_field) - 1] = z0.shape[Len(z0.shape)]
    /\ vector_field[Len(vector_field)] # control_gradient[Len(control_gradient)]

\* C5: with the adjoint method, an input the caller wants no gradient for is
\* detached before X.derivative / func sees it, so the result's ancestry does not
\* hold it; an input the caller wants a gradient for stays attached, whatever the
\* other input's flag; detaching leaves the values alone.
C5_AdjointDetaches ==
    (steps > 0 /\ adjoint) =>
        LET targ == last.derivative_args[1]
            zarg == last.func_args[1]
            res == last.ret.items[1]
        IN  /\ targ.data = last.t.data
            /\ zarg.data = last.z.items[1].data
            /\ ~t.requires_grad => ("t" \notin targ.anc /\ "t" \notin res.anc)
            /\ ~z0.requires_grad => ("z" \notin zarg.anc /\ "z" \notin res.anc)
            /\ t.requires_grad => ("t" \in targ.anc /\ "t" \in res.anc)
            /\ z0.requires_grad => ("z" \in zarg.anc /\ "z" \in res.anc)

C5_Witness ==
    /\ steps > 0 /\ adjoint /\ ~t.requires_grad /\ z0.requires_grad
    /\ "t" \notin last.ret.items[1].anc
    /\ "z" \in last.ret.items[1].anc

\* C6: without the adjoint method no invocation detaches: X.derivative gets the
\* solver's t and func gets the solver's z, whatever the requires_grad flags.
C6_NoAdjointNoDetach ==
    (steps > 0 /\ ~adjoint) =>
        /\ last.derivative_args = <<last.t>>
        /\ last.func_args = <<last.z.items[1]>>
        /\ {"t", "z"} \subseteq last.ret.items[1].anc

C6_Witness ==
    /\ steps > 0 /\ ~adjoint /\ ~t.requires_grad /\ ~z0.requires_grad
    /\ "t" \in last.derivative_args[1].anc

\* C7: an X that is no Path ends the call with a ValueError before X.derivative,
\* func or a solver is called.
C7_NotPathFailsFirst ==
    (pc # "idle" /\ ~X.isPath) =>
        /\ pc = "error"
        /\ raised.type = "ValueError"
        /\ raised.check = "X"
        /\ derivative_calls = 0
        /\ func_calls = 0
        /\ adaptors_built = 0
        /\ solver_calls = <<>>

C7_Witness == pc = "error" /\ ~X.isPath /\ raised.check = "X"

RECURSIVE Contract(_, _, _)
\* out[..., h] = sum over i of vf[..., h, i] * cg[..., i]
Contract(vf, cg, batch_rank) ==
    IF batch_rank = 0
    THEN [h \in 1..Len(vf) |-> SumTo(vf[h], cg, Len(cg))]
    ELSE [k \in 1..Len(vf) |-> Contract(vf[k], cg[k], batch_rank - 1)]

\* C8: an invocation returns a one-element tuple holding the contraction of
\* func(z) with X.derivative(t) over the input channels, for the values of the t
\* and z it was given, and calls X.derivative and func once each.
C8_CallIsContraction ==
    steps > 0 =>
        LET zin == last.z.items[1]
            fz == func_call([isModule |-> TRUE,
                             input_channels |-> vector_field[Len(vector_field)]],
                            zin)
            dx == X_derivative([derivative_shape |-> control_gradient], last.t)
        IN  /\ last.ret.kind = "tuple"
            /\ Len(last.ret.items) = 1
            /\ last.ret.items[1].shape = zin.shape
            /\ ShapeOf(last.ret.items[1].data, Len(zin.shape)) = zin.shape
            /\ last.ret.items[1].data
                   = Contract(fz.data, dx.data, Len(zin.shape) - 1)
            /\ Len(last.derivative_args) = 1
            /\ Len(last.func_args) = 1
            /\ derivative_calls = 1 + steps
            /\ func_calls = 1 + steps

C8_Witness ==
    /\ steps > 0
    /\ Len(z0.shape) = 2
    /\ z0.shape[2] = 2
    /\ vector_field[Len(vector_field)] = 2
    /\ last.t.data = 1

\* what C9 says of a call
OneSolverCall ==
    /\ Len(solver_calls) = 1
    /\ ~adjoint_given => adjoint
    /\ solver_calls[1].solver = (IF adjoint THEN "odeint_adjoint" ELSE "odeint")
    /\ adaptors_built = 1
    /\ solver_calls[1].func = adaptor.id
    /\ adaptor.id = adaptors_built
    /\ adaptor.t_not_requires_grad = (adjoint /\ ~t.requires_grad)
    /\ adaptor.z_not_requires_grad = (adjoint /\ ~z0.requires_grad)
    /\ solver_calls[1].y0.kind = "tuple"
    /\ Len(solver_calls[1].y0.items) = 1
    /\ solver_calls[1].y0.items[1].shape = z0.shape
    /\ solver_calls[1].t = t
    /\ solver_calls[1].kwargs = kwargs

C10_FlagsFixed ==
    adaptors_built > 0 =>
        /\ adaptor.t_not_requires_grad = (adjoint /\ ~t.requires_grad)
        /\ adaptor.z_not_requires_grad = (adjoint /\ ~z0.requires_grad)

C10_Witness ==
    /\ steps > 1
    /\ adaptor.t_not_requires_grad
    /\ ~adaptor.z_not_requires_grad

====
